---- MODULE Spec2Model ----
(***************************************************************************)
(* SiteMapper: the breadth-first crawl of SitemapGenerator                 *)
(* (src/sitemap_generator.py).                                             *)
(*                                                                         *)
(* A URL string is modelled as the sequence of its lexical tokens, e.g.    *)
(* "http://site.example/report.PDF" is                                     *)
(* <<"http", "://", "site.example", "/report", ".PDF">>.  urlparse,        *)
(* urljoin, str.lower and str.endswith are computed on these tokens.       *)
(***************************************************************************)
EXTENDS Integers, Sequences, FiniteSets, TLC

VARIABLES
    base_url,       \* self.base_url
    max_pages,      \* self.max_pages
    ignore_urls,    \* self.ignore_urls
    domain,         \* self.domain
    visited_urls,   \* self.visited_urls
    urls_to_crawl,  \* the local list urls_to_crawl of crawl_urls
    pc,             \* "loop" while crawl_urls runs, "done" once it has returned
    result,         \* the list crawl_urls returned
    fetchLog        \* the calls requests.get received, in order, with their outcome

vars == <<base_url, max_pages, ignore_urls, domain, visited_urls,
          urls_to_crawl, pc, result, fetchLog>>

(***************************************************************************)
(* Bounds of the model.                                                    *)
(***************************************************************************)
MaxPages == 4

\* crawl_urls is called again only while fewer fetches than this were made.
MaxFetchesBeforeRerun == 2

(***************************************************************************)
(* Strings.                                                                *)
(***************************************************************************)

\* str.lower() on one token (the tokens of the model that hold upper case).
Lower(tok) ==
    CASE tok = ".PDF" -> ".pdf"
      [] tok = ".PNG" -> ".png"
      [] tok = "/IMG" -> "/img"
      [] OTHER -> tok

\* file_extensions of _is_file_url.
file_extensions ==
    {".pdf", ".jpg", ".jpeg", ".png", ".gif", ".zip", ".csv", ".docx", ".xlsx", ".txt"}

\* Index of the first token of s that is in set D, Len(s) + 1 when there is none.
FirstIn(s, D) ==
    IF \E i \in 1..Len(s) : s[i] \in D
    THEN CHOOSE i \in 1..Len(s) : s[i] \in D /\ \A j \in 1..(i - 1) : s[j] \notin D
    ELSE Len(s) + 1

\* urllib.parse.urlparse: scheme (lower-cased), netloc, path, query, fragment.
Urlparse(u) ==
    LET hasScheme == Len(u) >= 2 /\ u[2] \in {"://", ":"}
        hasNetloc == hasScheme /\ u[2] = "://" /\ Len(u) >= 3
                        /\ u[3] \notin {"?", "#"}
        rest      == IF hasNetloc THEN SubSeq(u, 4, Len(u))
                     ELSE IF hasScheme THEN SubSeq(u, 3, Len(u))
                     ELSE u
        h         == FirstIn(rest, {"#"})
        noFrag    == SubSeq(rest, 1, h - 1)
        q         == FirstIn(noFrag, {"?"})
    IN  [scheme   |-> IF hasScheme THEN Lower(u[1]) ELSE "",
         netloc   |-> IF hasNetloc THEN u[3] ELSE "",
         path     |-> SubSeq(noFrag, 1, q - 1),
         query    |-> SubSeq(noFrag, q + 1, Len(noFrag)),
         fragment |-> SubSeq(rest, h + 1, Len(rest))]

\* urllib.parse.urlunparse.
Urlunparse(p) ==
    (IF p.netloc /= "" THEN <<p.scheme, "://", p.netloc>>
     ELSE IF p.scheme /= "" THEN <<p.scheme, ":">>
     ELSE <<>>)
    \o p.path
    \o (IF p.query /= <<>> THEN <<"?">> \o p.query ELSE <<>>)
    \o (IF p.fragment /= <<>> THEN <<"#">> \o p.fragment ELSE <<>>)

\* Schemes urllib.parse lists in uses_relative and uses_netloc (those of the model).
uses_relative == {"", "http", "https", "ftp"}

\* urllib.parse.urljoin(base, url) for references that are absolute URLs,
\* absolute paths, query-only or fragment-only.
Urljoin(base, url) ==
    IF url = <<>> THEN base
    ELSE IF base = <<>> THEN url
    ELSE
      LET b == Urlparse(base)
          r == Urlparse(url)
          scheme == IF r.scheme = "" THEN b.scheme ELSE r.scheme
      IN  IF scheme /= b.scheme \/ scheme \notin uses_relative THEN url
          ELSE IF r.netloc /= "" THEN Urlunparse([r EXCEPT !.scheme = scheme])
          ELSE IF r.path = <<>>
               THEN Urlunparse([scheme |-> scheme, netloc |-> b.netloc,
                                path |-> b.path,
                                query |-> IF r.query = <<>> THEN b.query ELSE r.query,
                                fragment |-> r.fragment])
               ELSE Urlunparse([scheme |-> scheme, netloc |-> b.netloc,
                                path |-> r.path, query |-> r.query,
                                fragment |-> r.fragment])

(***************************************************************************)
(* SitemapGenerator._is_file_url and SitemapGenerator.is_valid_url.        *)
(***************************************************************************)

\* any(url.lower().endswith(ext) for ext in file_extensions)
IsFileUrl(url) ==
    Len(url) > 0 /\ Lower(url[Len(url)]) \in file_extensions

\* is_valid_url without the netloc comparison.
IsValidUrlAnyDomain(url, visited) ==
    LET parsed == Urlparse(url)
    IN  /\ parsed.scheme \in {"http", "https"}
        /\ ~IsFileUrl(url)
        /\ url \notin visited
        /\ url \notin ignore_urls
        /\ Cardinality(visited) < max_pages

\* is_valid_url without the _is_file_url test.
IsValidUrlAnyFile(url, visited) ==
    LET parsed == Urlparse(url)
    IN  /\ parsed.netloc = domain
        /\ parsed.scheme \in {"http", "https"}
        /\ url \notin visited
        /\ url \notin ignore_urls
        /\ Cardinality(visited) < max_pages

\* is_valid_url without the len(self.visited_urls) < self.max_pages test.
IsValidUrlNoCap(url, visited) ==
    LET parsed == Urlparse(url)
    IN  /\ parsed.netloc = domain
        /\ parsed.scheme \in {"http", "https"}
        /\ ~IsFileUrl(url)
        /\ url \notin visited
        /\ url \notin ignore_urls

\* is_valid_url without the ignore_urls test.
IsValidUrlAnyIgnored(url, visited) ==
    LET parsed == Urlparse(url)
    IN  /\ parsed.netloc = domain
        /\ parsed.scheme \in {"http", "https"}
        /\ ~IsFileUrl(url)
        /\ url \notin visited
        /\ Cardinality(visited) < max_pages

\* is_valid_url(url) evaluated with self.visited_urls = visited.
IsValidUrl(url, visited) ==
    LET parsed == Urlparse(url)
    IN  /\ parsed.netloc = domain
        /\ parsed.scheme \in {"http", "https"}
        /\ ~IsFileUrl(url)
        /\ url \notin visited
        /\ url \notin ignore_urls
        /\ Cardinality(visited) < max_pages

(***************************************************************************)
(* The inputs of a run: the constructor's arguments and the web site the   *)
(* Fetcher answers from.                                                   *)
(***************************************************************************)

SiteBase == <<"http", "://", "site.example">>
FileBase == <<"http", "://", "site.example", "/report", ".pdf">>
BareBase == <<"site.example">>                \* a base URL without a scheme
BaseUrls == {SiteBase, FileBase, BareBase}

UrlA == <<"http", "://", "site.example", "/a">>
UrlB == <<"http", "://", "site.example", "/b">>

\* The ignore_urls argument (a list, or None).
IgnoreLists == {<<>>, <<UrlB>>, <<SiteBase>>, <<FileBase, UrlA>>}

\* Raw href strings of the <a href> elements of a page.
HrefA        == <<"/a">>
HrefB        == <<"/b">>
HrefExternal == <<"http", "://", "other.example", "/x">>
HrefPdf      == <<"/report", ".pdf">>
HrefPng      == <<"/IMG", ".PNG">>
HrefMail     == <<"mailto", ":", "x">>
HrefQuery    == <<"/a", "?", "f=x", ".pdf">>
HrefHome     == <<"http", "://", "site.example">>

\* The page bodies the site can serve: the hrefs of a page, in document order.
Bodies ==
    { <<>>,
      <<HrefA, HrefB, HrefExternal, HrefPdf>>,
      <<HrefA, HrefA>>,
      <<HrefB, HrefA>>,
      <<HrefPng, HrefMail, HrefB>>,
      <<HrefHome, HrefQuery, HrefA>> }

\* The values max_pages is drawn from: non-positive ones included.
PageCaps == (-1)..MaxPages

Range(s) == {s[i] : i \in 1..Len(s)}

\* list(a_set): a Python set iterates in hash order, which is any order.
ListOfSet(S) ==
    {s \in [1..Cardinality(S) -> S] : \A i, j \in 1..Cardinality(S) : s[i] = s[j] => i = j}

\* A frontier seeded with the ignore list behind the base URL.
InitSeedsIgnored ==
    /\ base_url \in BaseUrls
    /\ max_pages \in PageCaps
    /\ \E ignore \in IgnoreLists :
          /\ ignore_urls = Range(ignore)
          /\ urls_to_crawl = <<base_url>> \o ignore
    /\ domain = Urlparse(base_url).netloc
    /\ visited_urls = {}
    /\ pc = "loop"
    /\ result = <<>>
    /\ fetchLog = <<>>

(***************************************************************************)
(* SitemapGenerator.__init__, followed by the entry into crawl_urls.       *)
(***************************************************************************)
Init ==
    /\ base_url \in BaseUrls
    /\ max_pages \in PageCaps
    /\ \E ignore \in IgnoreLists : ignore_urls = Range(ignore)
    /\ domain = Urlparse(base_url).netloc
    /\ visited_urls = {}
    /\ urls_to_crawl = <<base_url>>
    /\ pc = "loop"
    /\ result = <<>>
    /\ fetchLog = <<>>

(***************************************************************************)
(* SitemapGenerator.crawl_urls: one action per way through the loop body,  *)
(* and one for the return.                                                 *)
(***************************************************************************)

\* The loop condition without the page cap.
LoopConditionNoCap ==
    urls_to_crawl /= <<>>

\* The loop condition stopping one page early.
LoopConditionEarlyStop ==
    urls_to_crawl /= <<>> /\ Cardinality(visited_urls) < max_pages - 1

\* while urls_to_crawl and len(self.visited_urls) < self.max_pages
LoopCondition ==
    urls_to_crawl /= <<>> /\ Cardinality(visited_urls) < max_pages

\* requests.get answers with a response only for an http(s) URL with a host;
\* anything else raises a RequestException (MissingSchema, InvalidSchema, InvalidURL).
Fetchable(url) ==
    LET parsed == Urlparse(url)
    IN  parsed.scheme \in {"http", "https"} /\ parsed.netloc /= ""

\* [urljoin(current_url, link['href']) for link in soup.find_all('a', href=True)]
ResolvedLinks(current_url, body) ==
    [i \in 1..Len(body) |-> Urljoin(current_url, body[i])]

\* The URLs the for loop appends: the resolved links that pass is_valid_url.
NewLinks(current_url, body, visited) ==
    SelectSeq(ResolvedLinks(current_url, body), LAMBDA u : IsValidUrl(u, visited))

\* self.visited_urls.add(current_url)
AddVisited(visited, current_url) == visited \cup {current_url}

\* A failed fetch that puts the URL back at the tail for a retry.
AfterFailureRequeue(frontier) == Append(Tail(frontier), Head(frontier))

\* A failed fetch after pop() instead of pop(0): the last entry is removed.
AfterFailurePopLast(frontier) == SubSeq(frontier, 1, Len(frontier) - 1)

\* The frontier after a failed fetch: only the pop(0) happened.
AfterFailure(frontier) == Tail(frontier)

\* if current_url in self.visited_urls: continue
SkipVisited ==
    /\ pc = "loop"
    /\ LoopCondition
    /\ Head(urls_to_crawl) \in visited_urls
    /\ urls_to_crawl' = Tail(urls_to_crawl)
    /\ UNCHANGED <<base_url, max_pages, ignore_urls, domain, visited_urls,
                   pc, result, fetchLog>>

\* The status-200 branch without the preceding "already visited" test.
FetchOkRefetch ==
    /\ pc = "loop"
    /\ LoopCondition
    /\ Fetchable(Head(urls_to_crawl))
    /\ \E body \in Bodies :
        LET current_url == Head(urls_to_crawl)
            visited     == AddVisited(visited_urls, current_url)
        IN  /\ visited_urls' = visited
            /\ urls_to_crawl' = Tail(urls_to_crawl) \o NewLinks(current_url, body, visited)
            /\ fetchLog' = Append(fetchLog,
                 [url |-> current_url, outcome |-> "200", links |-> body])
    /\ UNCHANGED <<base_url, max_pages, ignore_urls, domain, pc, result>>

\* requests.get returned status 200: visit the page and enqueue its valid links.
FetchOk ==
    /\ pc = "loop"
    /\ LoopCondition
    /\ Head(urls_to_crawl) \notin visited_urls
    /\ Fetchable(Head(urls_to_crawl))
    /\ \E body \in Bodies :
        LET current_url == Head(urls_to_crawl)
            visited     == AddVisited(visited_urls, current_url)
        IN  /\ visited_urls' = visited
            /\ urls_to_crawl' = Tail(urls_to_crawl) \o NewLinks(current_url, body, visited)
            /\ fetchLog' = Append(fetchLog,
                 [url |-> current_url, outcome |-> "200", links |-> body])
    /\ UNCHANGED <<base_url, max_pages, ignore_urls, domain, pc, result>>

\* A non-200 answer handled with the URL added to visited_urls before the
\* status test.
FetchNon200MarksVisited ==
    /\ pc = "loop"
    /\ LoopCondition
    /\ Head(urls_to_crawl) \notin visited_urls
    /\ Fetchable(Head(urls_to_crawl))
    /\ visited_urls' = AddVisited(visited_urls, Head(urls_to_crawl))
    /\ urls_to_crawl' = AfterFailure(urls_to_crawl)
    /\ fetchLog' = Append(fetchLog,
         [url |-> Head(urls_to_crawl), outcome |-> "404", links |-> <<>>])
    /\ UNCHANGED <<base_url, max_pages, ignore_urls, domain, pc, result>>

\* requests.get returned a status other than 200: nothing but the pop happens.
FetchNon200 ==
    /\ pc = "loop"
    /\ LoopCondition
    /\ Head(urls_to_crawl) \notin visited_urls
    /\ Fetchable(Head(urls_to_crawl))
    /\ urls_to_crawl' = AfterFailure(urls_to_crawl)
    /\ fetchLog' = Append(fetchLog,
         [url |-> Head(urls_to_crawl), outcome |-> "404", links |-> <<>>])
    /\ UNCHANGED <<base_url, max_pages, ignore_urls, domain, visited_urls, pc, result>>

\* requests.get raised requests.RequestException: caught, logged, loop continues.
FetchException ==
    /\ pc = "loop"
    /\ LoopCondition
    /\ Head(urls_to_crawl) \notin visited_urls
    /\ urls_to_crawl' = AfterFailure(urls_to_crawl)
    /\ fetchLog' = Append(fetchLog,
         [url |-> Head(urls_to_crawl), outcome |-> "RequestException", links |-> <<>>])
    /\ UNCHANGED <<base_url, max_pages, ignore_urls, domain, visited_urls, pc, result>>

\* return list(self.visited_urls)
Return ==
    /\ pc = "loop"
    /\ ~LoopCondition
    /\ result' \in ListOfSet(visited_urls)
    /\ pc' = "done"
    /\ UNCHANGED <<base_url, max_pages, ignore_urls, domain, visited_urls,
                   urls_to_crawl, fetchLog>>

\* A second call of crawl_urls on the same object: only the local list is new;
\* self.visited_urls is the set __init__ created.
CrawlAgain ==
    /\ pc = "done"
    /\ Len(fetchLog) < MaxFetchesBeforeRerun
    /\ urls_to_crawl' = <<base_url>>
    /\ pc' = "loop"
    /\ result' = <<>>
    /\ UNCHANGED <<base_url, max_pages, ignore_urls, domain, visited_urls, fetchLog>>

Next ==
    \/ SkipVisited
    \/ FetchOk
    \/ FetchNon200
    \/ FetchException
    \/ Return

Spec == Init /\ [][Next]_vars

\* Several calls of crawl_urls on one SitemapGenerator.
NextRuns ==
    \/ Next
    \/ CrawlAgain

SpecRuns == Init /\ [][NextRuns]_vars

\* The loop is sequential code and every requests.get ends (timeout=5): a step
\* that can be taken is taken.
FairSpec == Spec /\ WF_vars(Next)

(***************************************************************************)
(* SitemapGenerator.generate_sitemap: the document built from the list     *)
(* crawl_urls returned (the urlset element and its url/loc children).      *)
(***************************************************************************)
Sitemap(urls) ==
    [tag      |-> "urlset",
     xmlns    |-> "http://www.sitemaps.org/schemas/sitemap/0.9",
     children |-> [i \in 1..Len(urls) |-> [tag |-> "url", loc |-> urls[i]]]]

(***************************************************************************)
(* What the properties below speak of.                                     *)
(***************************************************************************)

\* The log entries of the fetches that failed (non-200 status or exception).
Failed(e) == e.outcome /= "200"

\* The URLs fetched with status 200, in the order of their fetches.
FetchOrder ==
    LET ok == SelectSeq(fetchLog, LAMBDA e : e.outcome = "200")
    IN  [i \in 1..Len(ok) |-> ok[i].url]

\* The URL ends, case-insensitively, with one of the ten blocked suffixes.
EndsWithBlockedSuffix(u) ==
    \E ext \in {".pdf", ".jpg", ".jpeg", ".png", ".gif", ".zip", ".csv",
                ".docx", ".xlsx", ".txt"} :
        Len(u) > 0 /\ Lower(u[Len(u)]) = ext

\* The domain, scheme, file-suffix and ignore clauses of the validity predicate.
StaticClauses(u) ==
    /\ Urlparse(u).netloc = Urlparse(base_url).netloc
    /\ Urlparse(u).scheme \in {"http", "https"}
    /\ ~EndsWithBlockedSuffix(u)
    /\ u \notin ignore_urls

\* The resolved link targets of page u, as served to the crawl.
LinkTargets(u) ==
    UNION { Range(ResolvedLinks(fetchLog[i].url, fetchLog[i].links)) :
              i \in {j \in 1..Len(fetchLog) :
                       fetchLog[j].url = u /\ fetchLog[j].outcome = "200"} }

\* The URLs reachable from S through links that pass the static clauses.
RECURSIVE Closure(_)
Closure(S) ==
    LET more == S \cup {v \in UNION {LinkTargets(u) : u \in S} : StaticClauses(v)}
    IN  IF more = S THEN S ELSE Closure(more)

Reachable == Closure({base_url})

(***************************************************************************)
(* Properties.                                                             *)
(***************************************************************************)

\* C1: with a positive max_pages, visited_urls never holds more than max_pages
\* URLs, and neither does the returned list.
C1_VisitedWithinCap ==
    max_pages > 0 =>
        /\ Cardinality(visited_urls) <= max_pages
        /\ Len(result) <= max_pages

\* C1 witness: the cap is reached while URLs are still waiting in the frontier.
C1_Witness ==
    /\ max_pages = 2
    /\ Cardinality(visited_urls) = 2
    /\ urls_to_crawl /= <<>>
    /\ pc = "done"

\* C2: no URL of ignore_urls is ever passed to requests.get, is ever in
\* visited_urls or is ever returned, the base URL included.
C2_IgnoredNeverFetched ==
    /\ \A i \in 1..Len(fetchLog) : fetchLog[i].url \notin ignore_urls
    /\ visited_urls \cap ignore_urls = {}
    /\ Range(result) \cap ignore_urls = {}

\* C3: every URL of visited_urls, and of the returned list, has the netloc
\* that was derived from the base URL.
C3_VisitedOnDomain ==
    /\ domain = Urlparse(base_url).netloc
    /\ \A u \in visited_urls \cup Range(result) : Urlparse(u).netloc = domain

\* C3 witness: a page with a link to another domain was visited, and so was
\* one of its same-domain links.
C3_Witness ==
    /\ \E i \in 1..Len(fetchLog) :
          /\ fetchLog[i].outcome = "200"
          /\ HrefExternal \in Range(fetchLog[i].links)
    /\ UrlA \in visited_urls
    /\ pc = "done"

\* C4: no returned URL ends, case-insensitively, with a blocked suffix, the
\* base URL included.
C4_NoFileUrlReturned ==
    pc = "done" => \A u \in Range(result) : ~EndsWithBlockedSuffix(u)

\* C5: a step that logs a failed fetch changes nothing but the frontier, which
\* loses its head: visited_urls is unchanged and nothing is appended.
C5_FailureOnlyPops ==
    [][ (fetchLog' /= fetchLog /\ Failed(fetchLog'[Len(fetchLog')])) =>
           /\ visited_urls' = visited_urls
           /\ urls_to_crawl' = Tail(urls_to_crawl)
           /\ fetchLog'[Len(fetchLog')].url = Head(urls_to_crawl)
           /\ fetchLog'[Len(fetchLog')].url \notin visited_urls'
           /\ result' = result
           /\ pc' = pc ]_vars

\* C5 witness: a fetch failed while other URLs were waiting, and the crawl went on.
C5_Witness ==
    \E i \in 1..Len(fetchLog) :
        /\ Failed(fetchLog[i])
        /\ i < Len(fetchLog)
        /\ fetchLog[i].url \notin visited_urls
        /\ pc = "done"

\* C6: the crawl terminates, and only with an empty frontier or with the cap
\* reached; a failed fetch does not end it while URLs wait below the cap.
C6_Terminates ==
    /\ <>(pc = "done")
    /\ [](pc = "done" =>
            (urls_to_crawl = <<>> \/ Cardinality(visited_urls) >= max_pages))

\* C6 witness: the crawl returned after a failed fetch that was followed by a
\* successful one.
C6_Witness ==
    /\ pc = "done"
    /\ \E i, j \in 1..Len(fetchLog) :
          i < j /\ Failed(fetchLog[i]) /\ ~Failed(fetchLog[j])

C8_NothingAfterCap ==
    /\ [][ /\ Cardinality(visited_urls) = max_pages =>
                (fetchLog' = fetchLog /\ urls_to_crawl' = urls_to_crawl)
           /\ (Cardinality(visited_urls') = max_pages
                 /\ Cardinality(visited_urls) < max_pages) =>
                urls_to_crawl' = Tail(urls_to_crawl) ]_vars
    /\ [](max_pages = 1 =>
            /\ Len(fetchLog) <= 1
            /\ \A i \in 1..Len(fetchLog) : fetchLog[i].url = base_url)

\* C8 witness: with max_pages = 1 the base page held valid same-domain links
\* and the run returned the base URL alone.
C8_Witness ==
    /\ pc = "done"
    /\ max_pages = 1
    /\ base_url = SiteBase
    /\ ignore_urls = {}
    /\ Len(fetchLog) = 1
    /\ fetchLog[1].links = <<HrefA, HrefB, HrefExternal, HrefPdf>>
    /\ result = <<SiteBase>>

\* C9: the returned list holds the visited URLs in the order of their fetches.
C9_ReturnedInFetchOrder ==
    pc = "done" => result = FetchOrder

\* C10: a URL whose fetch failed is not passed to requests.get again.
C10_NoRefetchAfterFailure ==
    \A i, j \in 1..Len(fetchLog) :
        (i < j /\ Failed(fetchLog[i])) => fetchLog[j].url /= fetchLog[i].url

\* The path of the URL (not its query or fragment) ends, case-insensitively,
\* with one of the ten blocked suffixes.
PathEndsWithBlockedSuffix(u) ==
    LET path == Urlparse(u).path
    IN  \E ext \in {".pdf", ".jpg", ".jpeg", ".png", ".gif", ".zip", ".csv",
                    ".docx", ".xlsx", ".txt"} :
            Len(path) > 0 /\ Lower(path[Len(path)]) = ext

\* The six clauses of the validity predicate, the suffix clause on the path.
SixClauses(u) ==
    /\ Urlparse(u).netloc = domain
    /\ Urlparse(u).scheme \in {"http", "https"}
    /\ ~PathEndsWithBlockedSuffix(u)
    /\ u \notin visited_urls
    /\ u \notin ignore_urls
    /\ Cardinality(visited_urls) < max_pages

\* The URLs is_valid_url was called with so far: the resolved links of the
\* pages fetched with status 200.
TestedUrls ==
    UNION { Range(ResolvedLinks(fetchLog[i].url, fetchLog[i].links)) :
              i \in {j \in 1..Len(fetchLog) : fetchLog[j].outcome = "200"} }

\* C11: in every crawler state is_valid_url(url) is true exactly when the
\* host, scheme, path-suffix, not-visited, not-ignored and cap clauses hold.
C11_ValidIffSixClauses ==
    \A u \in TestedUrls : IsValidUrl(u, visited_urls) <=> SixClauses(u)

C13_RunStartsEmpty ==
    [][ (pc = "done" /\ pc' = "loop") =>
           (urls_to_crawl' = <<base_url>> /\ visited_urls' = {}) ]_vars

\* A base URL that is no absolute http(s) URL with a host.
MalformedBase == ~(Urlparse(base_url).scheme \in {"http", "https"}
                   /\ Urlparse(base_url).netloc /= "")

\* C14: with a non-positive max_pages or a malformed base URL no fetch is
\* attempted and the run does not complete as a normal crawl.
C14_BadConfigRejected ==
    (max_pages <= 0 \/ MalformedBase) => (fetchLog = <<>> /\ pc /= "done")

\* C15: a popped URL that is already visited is discarded without a fetch, so
\* no URL is fetched with status 200 (and has its links extracted) twice.
C15_FetchedOkAtMostOnce ==
    /\ [][ (pc = "loop" /\ LoopCondition /\ Head(urls_to_crawl) \in visited_urls) =>
              /\ fetchLog' = fetchLog
              /\ visited_urls' = visited_urls
              /\ urls_to_crawl' = Tail(urls_to_crawl) ]_vars
    /\ [](\A i, j \in 1..Len(fetchLog) :
            (i < j /\ ~Failed(fetchLog[i]) /\ ~Failed(fetchLog[j]))
                => fetchLog[i].url /= fetchLog[j].url)

\* C15 witness: the base page linked to /a twice, /a was fetched once, and the
\* run ended below the cap with the frontier drained.
C15_Witness ==
    /\ pc = "done"
    /\ Len(fetchLog) = 2
    /\ fetchLog[1].links = <<HrefA, HrefA>>
    /\ fetchLog[2].url = UrlA
    /\ ~Failed(fetchLog[2])
    /\ fetchLog[2].links = <<>>
    /\ urls_to_crawl = <<>>
    /\ Cardinality(visited_urls) < max_pages

\* C16: the frontier loses entries at its head only and gains them at its
\* tail only, in the order the links were discovered; every fetched URL was
\* the head of the frontier, and the base URL is the first one fetched.
C16_FrontierIsFifo ==
    /\ [][ urls_to_crawl' /= urls_to_crawl =>
              /\ Len(urls_to_crawl) > 0
              /\ Len(urls_to_crawl') >= Len(urls_to_crawl) - 1
              /\ SubSeq(urls_to_crawl', 1, Len(urls_to_crawl) - 1) = Tail(urls_to_crawl)
              /\ fetchLog' /= fetchLog =>
                    LET e        == fetchLog'[Len(fetchLog')]
                        appended == SubSeq(urls_to_crawl', Len(urls_to_crawl),
                                           Len(urls_to_crawl'))
                    IN  /\ e.url = Head(urls_to_crawl)
                        /\ appended = SelectSeq(ResolvedLinks(e.url, e.links),
                                                LAMBDA u : u \in Range(appended))
              /\ fetchLog' = fetchLog => Len(urls_to_crawl') = Len(urls_to_crawl) - 1
          ]_vars
    /\ [](Len(fetchLog) > 0 => fetchLog[1].url = base_url)

\* C16 witness: /a and /b were enqueued in that order behind each other, /a
\* failed, and /b was fetched next.
C16_Witness ==
    /\ Len(fetchLog) = 3
    /\ fetchLog[1].links = <<HrefA, HrefB, HrefExternal, HrefPdf>>
    /\ fetchLog[2].url = UrlA
    /\ Failed(fetchLog[2])
    /\ fetchLog[3].url = UrlB

\* C17: every frontier entry other than the initial base-URL entry passed the
\* domain, scheme, file-suffix and ignore clauses; the base URL is the only
\* entry that enters untested.
C17_FrontierEntriesValid ==
    IF fetchLog = <<>>
    THEN urls_to_crawl = <<base_url>>
    ELSE \A i \in 1..Len(urls_to_crawl) : StaticClauses(urls_to_crawl[i])

\* C17 witness: after the base page with links to /a, /b, another domain and
\* a .pdf, the frontier holds /a and /b only.
C17_Witness ==
    /\ Len(fetchLog) = 1
    /\ fetchLog[1].links = <<HrefA, HrefB, HrefExternal, HrefPdf>>
    /\ urls_to_crawl = <<UrlA, UrlB>>

\* C18: every visited URL other than the base URL is a resolved link of a
\* visited page that was fetched with status 200 before it; following these
\* earlier pages back, every visited URL is reached from the base URL, which
\* is the first URL fetched.
C18_VisitedWasDiscovered ==
    /\ \A u \in visited_urls \ {base_url} :
          \E j \in 1..Len(fetchLog) :
              /\ fetchLog[j].url = u
              /\ ~Failed(fetchLog[j])
              /\ \E i \in 1..(j - 1) :
                    /\ ~Failed(fetchLog[i])
                    /\ fetchLog[i].url \in visited_urls
                    /\ u \in Range(ResolvedLinks(fetchLog[i].url, fetchLog[i].links))
    /\ visited_urls /= {} => (fetchLog[1].url = base_url /\ base_url \in visited_urls)

\* C18 witness: /b was visited and only the page /a links to it.
C18_Witness ==
    /\ Len(fetchLog) = 3
    /\ fetchLog[1].links = <<HrefA, HrefA>>
    /\ fetchLog[2].url = UrlA
    /\ fetchLog[2].links = <<HrefB, HrefA>>
    /\ fetchLog[3].url = UrlB
    /\ UrlB \in visited_urls

\* The first fetch, that of the base URL, failed.
BaseFetchFailed == Len(fetchLog) > 0 /\ Failed(fetchLog[1])

\* C19: when the fetch of the base URL fails the run makes no other fetch,
\* visits nothing, returns the empty list and the sitemap has no url entry;
\* the run does return.
C19_BaseFailureGivesEmptySitemap ==
    /\ [](BaseFetchFailed =>
            /\ Len(fetchLog) = 1
            /\ fetchLog[1].url = base_url
            /\ visited_urls = {}
            /\ urls_to_crawl = <<>>
            /\ result = <<>>
            /\ Sitemap(result).children = <<>>)
    /\ (BaseFetchFailed ~> (pc = "done" /\ Sitemap(result).tag = "urlset"))

\* C19 witness: the base URL answered with a failure and crawl_urls returned.
C19_Witness ==
    /\ BaseFetchFailed
    /\ base_url = SiteBase
    /\ max_pages = 2
    /\ pc = "done"

====
